---- MODULE Spec2Model ----
(***************************************************************************)
(* A model of the tmcl crate: the module dispatchers (GenericModule and    *)
(* TmcmModule) sharing one Interface through an InteriorMut cell, the      *)
(* socketcan Interface implementation, the Status decoding and the         *)
(* Return decoders.                                                        *)
(*                                                                         *)
(* Rust arrays are indexed from 0 and TLA+ sequences from 1: At(a, i) is   *)
(* the Rust a[i].                                                          *)
(***************************************************************************)
EXTENDS Integers, Sequences, FiniteSets, TLC

\* ------------------------------------------------------------------ bounds
\* The number of module dispatchers sharing the one interface.
NumModules == 2

\* The number of write_command calls made in one behaviour.
MaxCalls == 2

Modules == 1..NumModules

\* ----------------------------------------------------- integer arithmetic
\* TLC's integers are 32 bits wide and signed, so a u32 is kept as the word
\* [hi, lo] of its two 16-bit halves; every narrower type and i32 is an integer.
At(a, i) == a[i + 1]

\* x as u8: truncation to the width.
AsU8(x) == x % 256

\* x as i8, x as i16: truncation, then two's complement.
AsI8(x) == LET u == x % 256 IN IF u >= 128 THEN u - 256 ELSE u

AsI16(x) == LET u == x % 65536 IN IF u >= 32768 THEN u - 65536 ELSE u

\* x << k in u16.
Shl16(x, k) == (x * (2 ^ k)) % 65536

\* x >> k of an i32 (arithmetic shift).
Shr(x, k) == x \div (2 ^ k)

\* a | b for a, b >= 0.
RECURSIVE BitOr(_, _)
BitOr(a, b) ==
    IF a = 0 THEN b
    ELSE IF b = 0 THEN a
    ELSE (IF a % 2 = 1 \/ b % 2 = 1 THEN 1 ELSE 0) + 2 * BitOr(a \div 2, b \div 2)

\* The u32 of the two halves, and x as u32 for 0 <= x < 2^31.
Word(hi, lo) == [hi |-> hi, lo |-> lo]

U32(x) == Word(x \div 65536, x % 65536)

\* w << k, w >> k and v | w in u32, for 0 <= k < 32.
Shl32(w, k) ==
    IF k >= 16 THEN Word((w.lo * (2 ^ (k - 16))) % 65536, 0)
    ELSE Word((w.hi * (2 ^ k) + (w.lo * (2 ^ k)) \div 65536) % 65536,
              (w.lo * (2 ^ k)) % 65536)

Shr32(w, k) ==
    IF k >= 16 THEN Word(0, w.hi \div (2 ^ (k - 16)))
    ELSE Word(w.hi \div (2 ^ k),
              w.lo \div (2 ^ k) + (w.hi % (2 ^ k)) * (2 ^ (16 - k)))

Or32(v, w) == Word(BitOr(v.hi, w.hi), BitOr(v.lo, w.lo))

\* w as i32: two's complement.
AsI32(w) ==
    IF w.hi >= 32768 THEN (w.hi - 65536) * 65536 + w.lo ELSE w.hi * 65536 + w.lo

\* (w & 0xff) as u8 of a u32.
LowByte32(w) == w.lo % 256

\* ------------------------------------------------------------------ Status
\* Result<Status, NonValidErrorCode>: ok is FALSE for Err(NonValidErrorCode).
StatusOk(v) == [ok |-> TRUE, family |-> "Ok", variant |-> v]

StatusErr(v) == [ok |-> TRUE, family |-> "Err", variant |-> v]

NonValidErrorCode == [ok |-> FALSE, family |-> "", variant |-> "NonValidErrorCode"]

try_from_u8_swapped(id) ==
    CASE id = 100 -> StatusOk("Ok")
      [] id = 101 -> StatusOk("LoadedIntoEEPROM")
      [] id = 1 -> StatusErr("WrongChecksum")
      [] id = 2 -> StatusErr("InvalidCommand")
      [] id = 3 -> StatusErr("InvalidValue")
      [] id = 4 -> StatusErr("WrongType")
      [] id = 5 -> StatusErr("EEPROMLocked")
      [] id = 6 -> StatusErr("CommandNotAvailable")
      [] OTHER -> NonValidErrorCode

try_from_u8(id) ==
    CASE id = 100 -> StatusOk("Ok")
      [] id = 101 -> StatusOk("LoadedIntoEEPROM")
      [] id = 1 -> StatusErr("WrongChecksum")
      [] id = 2 -> StatusErr("InvalidCommand")
      [] id = 3 -> StatusErr("WrongType")
      [] id = 4 -> StatusErr("InvalidValue")
      [] id = 5 -> StatusErr("EEPROMLocked")
      [] id = 6 -> StatusErr("CommandNotAvailable")
      [] OTHER -> NonValidErrorCode

\* ------------------------------------------------------------ typed values
\* A value of a Return type: ty names the type, n holds an integer, w a u32,
\* b a bool and a a byte array; the fields a type does not use keep their default.
UnitVal == [ty |-> "unit", n |-> 0, w |-> Word(0, 0), b |-> FALSE, a |-> <<>>]

IntVal(ty, n) == [ty |-> ty, n |-> n, w |-> Word(0, 0), b |-> FALSE, a |-> <<>>]

WordVal(ty, w) == [ty |-> ty, n |-> 0, w |-> w, b |-> FALSE, a |-> <<>>]

BoolVal(ty, b) == [ty |-> ty, n |-> 0, w |-> Word(0, 0), b |-> b, a |-> <<>>]

ArrayVal(a) == [ty |-> "[u8; 4]", n |-> 0, w |-> Word(0, 0), b |-> FALSE, a |-> a]

\* A decoder's outcome: the value, or a panic of the decoder.
Decoded(v) == [panic |-> FALSE, val |-> v]

DecodePanic == [panic |-> TRUE, val |-> UnitVal]

\* ------------------------------------------------- Return decoders, lib.rs
from_operand_unit(operand) == Decoded(UnitVal)

from_operand_array(array) == Decoded(ArrayVal(array))

from_operand_bool(array) ==
    Decoded(BoolVal("bool",
        At(array, 0) # 0 \/ At(array, 1) # 0 \/ At(array, 2) # 0 \/ At(array, 3) # 0))

from_operand_i32(array) ==
    Decoded(IntVal("i32", AsI32(
        Or32(Or32(Or32(U32(At(array, 0)), Shl32(U32(At(array, 1)), 8)),
                  Shl32(U32(At(array, 2)), 16)),
             Shl32(U32(At(array, 3)), 24)))))

from_operand_i16(array) ==
    Decoded(IntVal("i16", AsI16(BitOr(At(array, 0), Shl16(At(array, 1), 8)))))

from_operand_i8(array) == Decoded(IntVal("i8", AsI8(At(array, 0))))

from_operand_u32(array) ==
    Decoded(WordVal("u32",
        Or32(Or32(Or32(U32(At(array, 0)), Shl32(U32(At(array, 1)), 8)),
                  Shl32(U32(At(array, 2)), 16)),
             Shl32(U32(At(array, 3)), 24))))

from_operand_u16(array) ==
    Decoded(IntVal("u16", BitOr(At(array, 0), Shl16(At(array, 1), 8))))

from_operand_u8(array) == Decoded(IntVal("u8", At(array, 0)))

\* ------------------- Return decoders, modules/tmcm/axis_parameters.rs
ActualPosition_deserialize(array) ==
    Decoded(IntVal("ActualPosition", AsI32(
        Or32(Or32(Or32(U32(At(array, 3)), Shl32(U32(At(array, 2)), 8)),
                  Shl32(U32(At(array, 1)), 16)),
             Shl32(U32(At(array, 0)), 24)))))

ActualSpeed_deserialize_le(array) ==
    Decoded(IntVal("ActualSpeed", AsI16(BitOr(At(array, 0), Shl16(At(array, 1), 8)))))

ActualSpeed_deserialize(array) ==
    Decoded(IntVal("ActualSpeed", AsI16(BitOr(At(array, 3), Shl16(At(array, 2), 8)))))

MaximumPositioningSpeed_deserialize(array) ==
    Decoded(IntVal("MaximumPositioningSpeed", BitOr(At(array, 3), Shl16(At(array, 2), 8))))

AbsoluteMaxCurrent_deserialize(array) ==
    Decoded(IntVal("AbsoluteMaxCurrent", BitOr(At(array, 3), Shl16(At(array, 2), 8))))

RightLimitSwitchDisable_deserialize(array) ==
    Decoded(BoolVal("RightLimitSwitchDisable", At(array, 3) # 0))

LeftLimitSwitchDisable_deserialize(array) ==
    Decoded(BoolVal("LeftLimitSwitchDisable", At(array, 3) # 0))

\* MicrostepResolution::try_from_u8: Ok(level) for 0..6, Err(()) otherwise.
MicrostepResolution_try_from_u8(v) ==
    CASE v = 0 -> [ok |-> TRUE, variant |-> "Full"]
      [] v = 1 -> [ok |-> TRUE, variant |-> "Half"]
      [] v = 2 -> [ok |-> TRUE, variant |-> "Micro4"]
      [] v = 3 -> [ok |-> TRUE, variant |-> "Micro8"]
      [] v = 4 -> [ok |-> TRUE, variant |-> "Micro16"]
      [] v = 5 -> [ok |-> TRUE, variant |-> "Micro32"]
      [] v = 6 -> [ok |-> TRUE, variant |-> "Micro64"]
      [] OTHER -> [ok |-> FALSE, variant |-> ""]

\* try_from_u8(array[3]).unwrap(): the unwrap of Err(()) panics. The enum's
\* discriminant is kept in n.
MicrostepResolution_deserialize(array) ==
    LET r == MicrostepResolution_try_from_u8(At(array, 3))
    IN IF r.ok THEN Decoded(IntVal("MicrostepResolution", At(array, 3)))
       ELSE DecodePanic

\* ------------------- WriteableAxisParameter::operand, axis_parameters.rs
\* The arms of axis_param_define_write! over the value self.0 of the type.
operand_u32(v) ==
    <<LowByte32(Shr32(v, 0)), LowByte32(Shr32(v, 8)),
      LowByte32(Shr32(v, 16)), LowByte32(Shr32(v, 24))>>

operand_u16(v) == <<AsU8(Shr(v, 0)), AsU8(Shr(v, 8)), 0, 0>>

operand_u8(v) == <<AsU8(Shr(v, 0)), 0, 0, 0>>

operand_i32(v) == <<AsU8(Shr(v, 0)), AsU8(Shr(v, 8)), AsU8(Shr(v, 16)), AsU8(Shr(v, 24))>>

operand_i16_low(v) == <<AsU8(Shr(v, 0)), 0, 0, 0>>

operand_i16(v) == <<AsU8(Shr(v, 0)), AsU8(Shr(v, 8)), 0, 0>>

operand_i8(v) == <<AsU8(Shr(v, 0)), 0, 0, 0>>

\* self.0 as u8 of a bool.
BoolAsU8(b) == IF b THEN 1 ELSE 0

operand_bool(v) == <<BoolAsU8(v), 0, 0, 0>>

\* ------------- WriteableAxisParameter, modules/tmcm/axis_parameters.rs
\* The types name the method serialize_value.
ActualPosition_serialize_value(pos) ==
    <<AsU8(Shr(pos, 24)), AsU8(Shr(pos, 16)), AsU8(Shr(pos, 8)), AsU8(pos)>>

MaximumPositioningSpeed_serialize_value(speed) == <<0, 0, AsU8(Shr(speed, 8)), AsU8(speed)>>

AbsoluteMaxCurrent_serialize_value(current) == <<0, 0, AsU8(Shr(current, 8)), AsU8(current)>>

RightLimitSwitchDisable_serialize_value(status) == <<0, 0, 0, BoolAsU8(status)>>

LeftLimitSwitchDisable_serialize_value(status) == <<0, 0, 0, BoolAsU8(status)>>

MicrostepResolution_serialize_value(level) == <<0, 0, 0, AsU8(level)>>

\* The semantic types axis_param_define_write! has an arm for.
SemanticTypes == {"bool", "i8", "u8", "i16", "u16", "i32", "u32"}

\* The operand of the axis parameter value p: of a type defined by
\* axis_param_rw! over a semantic type (named by that type), or of a type of
\* modules/tmcm/axis_parameters.rs.
WriteableAxisParameter_operand(p) ==
    CASE p.ty = "u32" -> operand_u32(p.w)
      [] p.ty = "u16" -> operand_u16(p.n)
      [] p.ty = "u8" -> operand_u8(p.n)
      [] p.ty = "i32" -> operand_i32(p.n)
      [] p.ty = "i16" -> operand_i16(p.n)
      [] p.ty = "i8" -> operand_i8(p.n)
      [] p.ty = "bool" -> operand_bool(p.b)
      [] p.ty = "ActualPosition" -> ActualPosition_serialize_value(p.n)
      [] p.ty = "MaximumPositioningSpeed" -> MaximumPositioningSpeed_serialize_value(p.n)
      [] p.ty = "AbsoluteMaxCurrent" -> AbsoluteMaxCurrent_serialize_value(p.n)
      [] p.ty = "RightLimitSwitchDisable" -> RightLimitSwitchDisable_serialize_value(p.b)
      [] p.ty = "LeftLimitSwitchDisable" -> LeftLimitSwitchDisable_serialize_value(p.b)
      [] p.ty = "MicrostepResolution" -> MicrostepResolution_serialize_value(p.n)

\* MaximumPositioningSpeed::new: assert!(speed <= 2047) panics above the limit.
MaximumPositioningSpeed_new_unchecked(speed) ==
    Decoded(IntVal("MaximumPositioningSpeed", speed))

MaximumPositioningSpeed_new(speed) ==
    IF speed <= 2047 THEN Decoded(IntVal("MaximumPositioningSpeed", speed))
    ELSE DecodePanic

AbsoluteMaxCurrent_new(current) == Decoded(IntVal("AbsoluteMaxCurrent", current))

RightLimitSwitchDisable_disabled == BoolVal("RightLimitSwitchDisable", TRUE)

RightLimitSwitchDisable_enabled == BoolVal("RightLimitSwitchDisable", FALSE)

LeftLimitSwitchDisable_disabled == BoolVal("LeftLimitSwitchDisable", TRUE)

LeftLimitSwitchDisable_enabled == BoolVal("LeftLimitSwitchDisable", FALSE)

\* <Inst::Return as Return>::from_operand: the decoder of the Return type ty.
from_operand(ty, operand) ==
    CASE ty = "unit" -> from_operand_unit(operand)
      [] ty = "[u8; 4]" -> from_operand_array(operand)
      [] ty = "bool" -> from_operand_bool(operand)
      [] ty = "i32" -> from_operand_i32(operand)
      [] ty = "i16" -> from_operand_i16(operand)
      [] ty = "i8" -> from_operand_i8(operand)
      [] ty = "u32" -> from_operand_u32(operand)
      [] ty = "u16" -> from_operand_u16(operand)
      [] ty = "u8" -> from_operand_u8(operand)
      [] ty = "ActualPosition" -> ActualPosition_deserialize(operand)
      [] ty = "ActualSpeed" -> ActualSpeed_deserialize(operand)
      [] ty = "MaximumPositioningSpeed" -> MaximumPositioningSpeed_deserialize(operand)
      [] ty = "AbsoluteMaxCurrent" -> AbsoluteMaxCurrent_deserialize(operand)
      [] ty = "RightLimitSwitchDisable" -> RightLimitSwitchDisable_deserialize(operand)
      [] ty = "LeftLimitSwitchDisable" -> LeftLimitSwitchDisable_deserialize(operand)
      [] ty = "MicrostepResolution" -> MicrostepResolution_deserialize(operand)

\* ------------------------------------------------------------ instructions
\* An instruction value: op names the struct; motor is motor_number or
\* bank_number; num is the parameter, port or action number an instance holds;
\* ptype names the axis parameter type T of GAP<T>; val is an i32 field, uval a
\* u32 field (velocity), arr a byte array field (the generic SAP's operand) and
\* param the value an instruction holds (the axis parameter of SAP<T>, the
\* MoveOperation of MVP, the variant of CALC).
ROR_new(motor_number, velocity) ==
    [op |-> "ROR", motor |-> motor_number, num |-> 0, ptype |-> "",
     val |-> 0, uval |-> velocity,
     param |-> UnitVal, arr |-> <<>>]

ROL_new(motor_number, velocity) ==
    [op |-> "ROL", motor |-> motor_number, num |-> 0, ptype |-> "",
     val |-> 0, uval |-> velocity,
     param |-> UnitVal, arr |-> <<>>]

MST_new(motor_number) ==
    [op |-> "MST", motor |-> motor_number, num |-> 0, ptype |-> "",
     val |-> 0, uval |-> Word(0, 0),
     param |-> UnitVal, arr |-> <<>>]

GAP_new(T, motor_number) ==
    [op |-> "GAP", motor |-> motor_number, num |-> 0, ptype |-> T,
     val |-> 0, uval |-> Word(0, 0),
     param |-> UnitVal, arr |-> <<>>]

\* MoveOperation::Absolute(x), Relative(x) (x an i32) and Coordinate(x) (a u32).
MoveOperation(kind, x) == IF kind = "Coordinate" THEN WordVal(kind, x) ELSE IntVal(kind, x)

MVP_new(motor_number, value) ==
    [op |-> "MVP", motor |-> motor_number, num |-> 0, ptype |-> "",
     val |-> 0, uval |-> Word(0, 0), param |-> value, arr |-> <<>>]

\* SAP<T>::new, STAP<T>::new and RSAP<T>::new; T is the type of axis_parameter.
SAP_new(motor_number, axis_parameter) ==
    [op |-> "SAP", motor |-> motor_number, num |-> 0, ptype |-> axis_parameter.ty,
     val |-> 0, uval |-> Word(0, 0), param |-> axis_parameter, arr |-> <<>>]

STAP_new(T, motor_number) ==
    [op |-> "STAP", motor |-> motor_number, num |-> 0, ptype |-> T,
     val |-> 0, uval |-> Word(0, 0), param |-> UnitVal, arr |-> <<>>]

RSAP_new(T, motor_number) ==
    [op |-> "RSAP", motor |-> motor_number, num |-> 0, ptype |-> T,
     val |-> 0, uval |-> Word(0, 0), param |-> UnitVal, arr |-> <<>>]

\* CALC::Add(x), ..., CALC::Load(x) and CALC::Not.
CALC(variant, x) ==
    [op |-> "CALC", motor |-> 0, num |-> 0, ptype |-> variant,
     val |-> x, uval |-> Word(0, 0), param |-> UnitVal, arr |-> <<>>]

\* ReferenceSearchAction as u8: Start = 0, Stop = 1, Status = 2.
ReferenceSearchAction(action) ==
    CASE action = "Start" -> 0
      [] action = "Stop" -> 1
      [] action = "Status" -> 2

RFS_new(motor_number, action) ==
    [op |-> "RFS", motor |-> motor_number, num |-> ReferenceSearchAction(action),
     ptype |-> "", val |-> 0, uval |-> Word(0, 0),
     param |-> UnitVal, arr |-> <<>>]

GIO_new(bank_number, port_number) ==
    [op |-> "GIO", motor |-> bank_number, num |-> port_number, ptype |-> "",
     val |-> 0, uval |-> Word(0, 0),
     param |-> UnitVal, arr |-> <<>>]

\* modules/generic/instructions.rs: SAP, GAP and STAP over a raw parameter number.
GenericSAP_new(motor_number, parameter_number, operand) ==
    [op |-> "GenericSAP", motor |-> motor_number, num |-> parameter_number,
     ptype |-> "", val |-> 0, uval |-> Word(0, 0),
     param |-> UnitVal, arr |-> operand]

GenericGAP_new(motor_number, parameter_number) ==
    [op |-> "GenericGAP", motor |-> motor_number, num |-> parameter_number,
     ptype |-> "", val |-> 0, uval |-> Word(0, 0),
     param |-> UnitVal, arr |-> <<>>]

GenericSTAP_new(motor_number, parameter_number) ==
    [op |-> "GenericSTAP", motor |-> motor_number, num |-> parameter_number,
     ptype |-> "", val |-> 0, uval |-> Word(0, 0),
     param |-> UnitVal, arr |-> <<>>]

NoInstruction ==
    [op |-> "", motor |-> 0, num |-> 0, ptype |-> "", val |-> 0, uval |-> Word(0, 0),
     param |-> UnitVal, arr |-> <<>>]

\* AxisParameter::NUMBER of the types of modules/tmcm/axis_parameters.rs.
NUMBER(T) ==
    CASE T = "ActualPosition" -> 1
      [] T = "ActualSpeed" -> 3
      [] T = "MaximumPositioningSpeed" -> 4
      [] T = "AbsoluteMaxCurrent" -> 6
      [] T = "RightLimitSwitchDisable" -> 12
      [] T = "LeftLimitSwitchDisable" -> 13
      [] T = "MicrostepResolution" -> 140

\* impl AxisParameter for T.
AxisParameter ==
    {"ActualPosition", "ActualSpeed", "MaximumPositioningSpeed", "AbsoluteMaxCurrent",
     "RightLimitSwitchDisable", "LeftLimitSwitchDisable", "MicrostepResolution"}

\* impl ReadableAxisParameter for T and impl ReadableTmcmAxisParameter for T.
ReadableAxisParameter ==
    {"ActualPosition", "ActualSpeed", "MaximumPositioningSpeed", "AbsoluteMaxCurrent",
     "RightLimitSwitchDisable", "LeftLimitSwitchDisable", "MicrostepResolution"}

ReadableTmcmAxisParameter ==
    {"ActualPosition", "ActualSpeed", "MaximumPositioningSpeed", "AbsoluteMaxCurrent",
     "RightLimitSwitchDisable", "LeftLimitSwitchDisable", "MicrostepResolution"}

\* impl WriteableAxisParameter for T and impl WriteableTmcmAxisParameter for T:
\* ActualSpeed has neither.
WriteableAxisParameter ==
    {"ActualPosition", "MaximumPositioningSpeed", "AbsoluteMaxCurrent",
     "RightLimitSwitchDisable", "LeftLimitSwitchDisable", "MicrostepResolution"}

WriteableTmcmAxisParameter ==
    {"ActualPosition", "MaximumPositioningSpeed", "AbsoluteMaxCurrent",
     "RightLimitSwitchDisable", "LeftLimitSwitchDisable", "MicrostepResolution"}

\* CALC::type_number.
CALC_type_number_load_not(variant) ==
    CASE variant = "Add" -> 0
      [] variant = "Sub" -> 1
      [] variant = "Mul" -> 2
      [] variant = "Div" -> 3
      [] variant = "Mod" -> 4
      [] variant = "And" -> 5
      [] variant = "Or" -> 6
      [] variant = "Xor" -> 7
      [] variant = "Not" -> 9
      [] variant = "Load" -> 8

CALC_type_number(variant) ==
    CASE variant = "Add" -> 0
      [] variant = "Sub" -> 1
      [] variant = "Mul" -> 2
      [] variant = "Div" -> 3
      [] variant = "Mod" -> 4
      [] variant = "And" -> 5
      [] variant = "Or" -> 6
      [] variant = "Xor" -> 7
      [] variant = "Not" -> 8
      [] variant = "Load" -> 9

INSTRUCTION_NUMBER(i) ==
    CASE i.op = "ROR" -> 1
      [] i.op = "ROL" -> 2
      [] i.op = "MST" -> 3
      [] i.op = "MVP" -> 4
      [] i.op = "SAP" -> 5
      [] i.op = "GAP" -> 6
      [] i.op = "STAP" -> 7
      [] i.op = "RSAP" -> 8
      [] i.op = "CALC" -> 19
      [] i.op = "RFS" -> 13
      [] i.op = "GIO" -> 15
      [] i.op = "GenericSAP" -> 5
      [] i.op = "GenericGAP" -> 6
      [] i.op = "GenericSTAP" -> 7

type_number_zero(i) == 0

type_number(i) ==
    CASE i.op \in {"ROR", "ROL", "MST", "MVP"} -> 0
      [] i.op \in {"SAP", "GAP", "STAP", "RSAP"} -> NUMBER(i.ptype)
      [] i.op = "CALC" -> CALC_type_number(i.ptype)
      [] i.op \in {"RFS", "GIO"} -> i.num
      [] i.op \in {"GenericSAP", "GenericGAP", "GenericSTAP"} -> i.num

motor_bank_number(i) == i.motor

\* [(v & 0xff) as u8, ((v >> 8) & 0xff) as u8, ((v >> 16) & 0xff) as u8,
\*  ((v >> 24) & 0xff) as u8]
\* of the u32 v.
LittleEndian4(v) ==
    <<AsU8(LowByte32(v)), AsU8(LowByte32(Shr32(v, 8))),
      AsU8(LowByte32(Shr32(v, 16))), AsU8(LowByte32(Shr32(v, 24)))>>

\* Instruction::operand; the generic SAP, GAP and STAP name it serialize_value.
operand(i) ==
    CASE i.op \in {"ROR", "ROL"} -> LittleEndian4(i.uval)
      [] i.op \in {"MST", "GAP", "STAP", "RSAP", "RFS", "GIO"} -> <<0, 0, 0, 0>>
      [] i.op = "MVP" ->
            IF i.param.ty = "Coordinate" THEN LittleEndian4(i.param.w)
            ELSE <<AsU8(i.param.n), AsU8(Shr(i.param.n, 8)),
                   AsU8(Shr(i.param.n, 16)), AsU8(Shr(i.param.n, 24))>>
      [] i.op = "SAP" -> WriteableAxisParameter_operand(i.param)
      [] i.op = "CALC" ->
            IF i.ptype = "Not" THEN <<0, 0, 0, 0>>
            ELSE <<AsU8(Shr(i.val, 0)), AsU8(Shr(i.val, 8)),
                   AsU8(Shr(i.val, 16)), AsU8(Shr(i.val, 24))>>
      [] i.op = "GenericSAP" ->
            <<At(i.arr, 3), At(i.arr, 2), At(i.arr, 1), At(i.arr, 0)>>
      [] i.op \in {"GenericGAP", "GenericSTAP"} -> <<0, 0, 0, 0>>

\* DirectInstruction::Return.
Return(i) ==
    CASE i.op \in {"ROR", "ROL", "MST", "MVP", "SAP", "STAP", "RSAP", "CALC",
                   "GenericSAP", "GenericSTAP"} -> "unit"
      [] i.op = "GAP" -> i.ptype
      [] i.op = "GenericGAP" -> "[u8; 4]"
      [] i.op = "RFS" -> "bool"
      [] i.op = "GIO" -> "u32"

\* impl TmcmInstruction for the instruction's type.
TmcmInstruction(i) ==
    \/ i.op \in {"ROR", "ROL", "MST", "MVP", "RFS", "GIO"}
    \/ i.op = "GAP" /\ i.ptype \in ReadableTmcmAxisParameter
    \/ i.op \in {"SAP", "STAP", "RSAP"} /\ i.ptype \in WriteableTmcmAxisParameter

\* Command::new and Command::serialize_can.
Command_new(module_address, instruction) ==
    [module_address |-> module_address, instruction |-> instruction]

serialize_can_unreversed(command) ==
    <<INSTRUCTION_NUMBER(command.instruction),
      type_number(command.instruction),
      motor_bank_number(command.instruction)>> \o operand(command.instruction)

serialize_can(command) ==
    <<INSTRUCTION_NUMBER(command.instruction),
      type_number(command.instruction),
      motor_bank_number(command.instruction),
      At(operand(command.instruction), 3),
      At(operand(command.instruction), 2),
      At(operand(command.instruction), 1),
      At(operand(command.instruction), 0)>>

\* Reply::new.
Reply_new(reply_address, module_address, status, command_number, op) ==
    [reply_address |-> reply_address, module_address |-> module_address,
     status |-> status, command_number |-> command_number, operand |-> op]

\* ------------------------------------------- the socketcan Interface
\* What the CAN socket hands to read_frame and write_frame_insist.
IoErrors == {"ENETDOWN", "ENOBUFS"}

NoFrame == [id |-> 0, data |-> <<>>]

NoReply == Reply_new(0, 0, NonValidErrorCode, 0, <<>>)

\* CANSocket::transmit_command: the frame built from the command, and the
\* io::Result of write_frame_insist (io is "ok" or an io::Error).
transmit_command(command, io) ==
    [ok |-> io = "ok", err |-> IF io = "ok" THEN "" ELSE io,
     frame |-> [id |-> command.module_address, data |-> serialize_can(command)]]

\* CANSocket::receive_reply on the outcome of read_frame (io is "ok" or an
\* io::Error): Err by the ? operator, a panic by the unwrap of an unknown status
\* or by an index beyond the frame's data, else Ok(Reply).
receive_reply(io, frame) ==
    IF io # "ok" THEN [kind |-> "Err", err |-> io, reply |-> NoReply]
    ELSE IF Len(frame.data) < 7 \/ ~try_from_u8(At(frame.data, 1)).ok
         THEN [kind |-> "Panic", err |-> "", reply |-> NoReply]
    ELSE [kind |-> "Ok", err |-> "",
          reply |-> Reply_new(AsU8(frame.id), At(frame.data, 0),
                              try_from_u8(At(frame.data, 1)), At(frame.data, 2),
                              <<At(frame.data, 3), At(frame.data, 4),
                                At(frame.data, 5), At(frame.data, 6)>>)]

\* ----------------------------------------------------- the dispatchers
\* GenericModule (odd module addresses) and TmcmModule (even ones).
Kind(m) == IF m % 2 = 1 THEN "generic" ELSE "tmcm"

\* The Result of write_command: tag "Ok" carries val, the Error tags carry err.
Ok(v) == [tag |-> "Ok", err |-> "", val |-> v]

Err(tag, e) == [tag |-> tag, err |-> e, val |-> UnitVal]

NoResult == [tag |-> "", err |-> "", val |-> UnitVal]

\* A panic is no Result: the call never returns.
Panicked == [tag |-> "Panic", err |-> "", val |-> UnitVal]

\* Err(Error::InterfaceUnavailable) of GenericModule, Err(Error::InterfaceBusy)
\* of TmcmModule.
InterfaceUnavailable(kind) ==
    IF kind = "generic" THEN Err("InterfaceUnavailable", "")
    ELSE Err("InterfaceBusy", "")

\* map_err(|e| Error::InterfaceError(e)).
InterfaceError_opaque(e) == Err("InterfaceError", "")

InterfaceError(e) == Err("InterfaceError", e)

\* impl From<ErrStatus> for Error<T>.
ErrStatus_into_interface(es) == Err("InterfaceError", es)

ErrStatus_into(es) == Err("ProtocolError", es)

\* InteriorMut::borrow_int_mut on the cell c, held by the module b (0: free):
\* RefCell::try_borrow_mut fails while the cell is borrowed; Mutex::lock blocks
\* while the mutex is held and fails once it is poisoned.
borrow_int_mut_unchecked(c, b, poison) == "Ok"

borrow_int_mut_blocking(c, b, poison) ==
    IF b # 0 THEN "Block"
    ELSE IF poison THEN "Err"
    ELSE "Ok"

borrow_int_mut(c, b, poison) ==
    IF c = "RefCell" THEN (IF b # 0 THEN "Err" ELSE "Ok")
    ELSE IF b # 0 THEN "Block"
    ELSE IF poison THEN "Err"
    ELSE "Ok"

\* The guard is bound by let mut interface: the module keeps it across the
\* statements of write_command.
GuardAfterTransmit_temporary(b, m) == IF b = m THEN 0 ELSE b

GuardAfterTransmit(b, m) == b

\* The drop of the RefMut or MutexGuard when write_command returns or unwinds.
DropGuard_leak(b, m) == b

DropGuard(b, m) == IF b = m THEN 0 ELSE b

\* match reply.status(): Ok(_) decodes the operand as the Return type ty, Err(e)
\* converts e. The decoder's panic is the call's.
MatchStatus(reply, ty) ==
    IF reply.status.family = "Ok"
    THEN LET d == from_operand(ty, reply.operand)
         IN IF d.panic THEN Panicked ELSE Ok(d.val)
    ELSE ErrStatus_into(reply.status.variant)

\* ------------------------------------------------------------------ state
VARIABLES
    cell,       \* "RefCell" or "Mutex": the InteriorMut cell around the interface
    borrowed,   \* the module holding the cell's RefMut or MutexGuard, 0 if none
    poisoned,   \* the Mutex is poisoned (a thread panicked holding its guard)
    pc,         \* per module: "idle", "lock", "transmit", "receive" or "dead"
    inst,       \* per module: the instruction of its call in progress
    nTx,        \* per module: the transmit_command calls of its current call
    nRx,        \* per module: the receive_reply calls of its current call
    wire,       \* the last CAN frame written to the socket
    last,       \* how a call ended, if the last step ended one (NoLast if not)
    log,        \* the interface's operations and the ends of the calls, in order
    calls,      \* the write_command calls made so far
    codecIn,    \* the argument of the last conversion applied on its own
    codecOut    \* its outcome

vars == <<cell, borrowed, poisoned, pc, inst, nTx, nRx, wire, last, log, calls,
          codecIn, codecOut>>

dispatchVars == <<cell, borrowed, poisoned, pc, inst, nTx, nRx, wire, last, log, calls>>

codecVars == <<codecIn, codecOut>>

\* ---------------------------------------------------- the environment
\* The instructions the callers pass to write_command.
GenericInstructions ==
    {ROR_new(0, U32(250)), GenericSAP_new(0, 3, <<0, 0, 0, 0>>), GenericGAP_new(0, 3),
     RFS_new(0, "Status")}

TmcmInstructions ==
    {ROL_new(0, U32(250)), GAP_new("ActualSpeed", 0), GAP_new("MicrostepResolution", 0),
     GIO_new(0, 1)}

Instructions(m) ==
    IF Kind(m) = "generic" THEN GenericInstructions
    ELSE {i \in TmcmInstructions : TmcmInstruction(i)}

\* The status bytes and operand bytes a module answers with.
StatusBytes == (0..7) \cup {100, 101, 102, 255}

ReplyOperands ==
    {<<0, 0, 0, 0>>, <<0, 0, 0, 1>>, <<1, 0, 0, 0>>, <<0, 0, 1, 0>>,
     <<0, 0, 0, 7>>, <<255, 255, 255, 255>>}

\* The frames read_frame can return to module m after its instruction i: the
\* module's 7 data bytes, or a frame cut short.
ReplyFrames(m, i) ==
    {[id |-> 2, data |-> <<m, st, INSTRUCTION_NUMBER(i)>> \o op] :
        st \in StatusBytes, op \in ReplyOperands}
    \cup {[id |-> 2, data |-> <<m, 100>>]}

\* ------------------------------------------------------------------- Init
NoLast ==
    [m |-> 0, inst |-> NoInstruction, result |-> NoResult, frame |-> NoFrame,
     nTx |-> 0, nRx |-> 0, waited |-> FALSE]

InitDispatch ==
    /\ cell \in {"RefCell", "Mutex"}
    /\ borrowed = 0
    /\ poisoned = FALSE
    /\ pc = [m \in Modules |-> "idle"]
    /\ inst = [m \in Modules |-> NoInstruction]
    /\ nTx = [m \in Modules |-> 0]
    /\ nRx = [m \in Modules |-> 0]
    /\ wire = NoFrame
    /\ last = NoLast
    /\ log = <<>>
    /\ calls = 0

Init ==
    /\ InitDispatch
    /\ codecIn = 0
    /\ codecOut = NonValidErrorCode

\* ---------------------------------------------------------------- actions
\* A log entry: op is "tx", "txfail", "rx" or "rxfail" for an operation of the
\* interface (tag: its io::Error, if any) and "end" for the end of a call (tag:
\* the tag of its Result, or "Panic").
Entry(op, m, tag) == [op |-> op, m |-> m, tag |-> tag]

\* The end of module m's call with the Result (or panic) r.
EndOfCall(m, i, r, frame, tx, rx, waited) ==
    [m |-> m, inst |-> i, result |-> r, frame |-> frame, nTx |-> tx, nRx |-> rx,
     waited |-> waited]

\* The thread of a panicking call dies; under a RefCell all modules are on it.
AfterPanic(m) ==
    IF cell = "RefCell" THEN [x \in Modules |-> "dead"]
    ELSE [pc EXCEPT ![m] = "dead"]

\* write_command up to the return of borrow_int_mut, for a cell that is free or
\* that refuses: the guard is taken, or the call returns the Err.
WriteCommand(m, i) ==
    /\ pc[m] = "idle"
    /\ calls < MaxCalls
    /\ calls' = calls + 1
    /\ LET b == borrow_int_mut(cell, borrowed, poisoned)
       IN CASE b = "Ok" ->
                /\ borrowed' = m
                /\ pc' = [pc EXCEPT ![m] = "transmit"]
                /\ inst' = [inst EXCEPT ![m] = i]
                /\ nTx' = [nTx EXCEPT ![m] = 0]
                /\ nRx' = [nRx EXCEPT ![m] = 0]
                /\ last' = NoLast
                /\ UNCHANGED log
            [] b = "Err" ->
                /\ last' = EndOfCall(m, i, InterfaceUnavailable(Kind(m)), NoFrame, 0, 0, FALSE)
                /\ log' = Append(log, Entry("end", m, InterfaceUnavailable(Kind(m)).tag))
                /\ UNCHANGED <<borrowed, pc, inst, nTx, nRx>>
            [] b = "Block" ->
                /\ pc' = [pc EXCEPT ![m] = "lock"]
                /\ inst' = [inst EXCEPT ![m] = i]
                /\ nTx' = [nTx EXCEPT ![m] = 0]
                /\ nRx' = [nRx EXCEPT ![m] = 0]
                /\ last' = NoLast
                /\ UNCHANGED <<borrowed, log>>
    /\ UNCHANGED <<cell, poisoned, wire, codecVars>>

\* Mutex::lock returns to a module that was blocked in it.
LockReturns(m) ==
    /\ pc[m] = "lock"
    /\ LET b == borrow_int_mut(cell, borrowed, poisoned)
       IN /\ b # "Block"
          /\ IF b = "Ok"
             THEN /\ borrowed' = m
                  /\ pc' = [pc EXCEPT ![m] = "transmit"]
                  /\ last' = NoLast
                  /\ UNCHANGED <<inst, log>>
             ELSE /\ last' = EndOfCall(m, inst[m], InterfaceUnavailable(Kind(m)),
                                       NoFrame, 0, 0, TRUE)
                  /\ log' = Append(log, Entry("end", m, InterfaceUnavailable(Kind(m)).tag))
                  /\ pc' = [pc EXCEPT ![m] = "idle"]
                  /\ inst' = [inst EXCEPT ![m] = NoInstruction]
                  /\ UNCHANGED borrowed
    /\ UNCHANGED <<cell, poisoned, nTx, nRx, wire, calls, codecVars>>

\* interface.transmit_command(&Command::new(self.address, instruction)), then
\* map_err and ?: on Err the call returns and its guard is dropped.
Transmit(m, io) ==
    /\ pc[m] = "transmit"
    /\ LET t == transmit_command(Command_new(m, inst[m]), io)
       IN IF t.ok
          THEN /\ wire' = t.frame
               /\ nTx' = [nTx EXCEPT ![m] = @ + 1]
               /\ log' = Append(log, Entry("tx", m, ""))
               /\ pc' = [pc EXCEPT ![m] = "receive"]
               /\ last' = NoLast
               /\ borrowed' = GuardAfterTransmit(borrowed, m)
               /\ UNCHANGED inst
          ELSE /\ last' = EndOfCall(m, inst[m], InterfaceError(t.err), NoFrame,
                                    nTx[m] + 1, nRx[m], FALSE)
               /\ log' = log \o <<Entry("txfail", m, t.err),
                                  Entry("end", m, InterfaceError(t.err).tag)>>
               /\ borrowed' = DropGuard(borrowed, m)
               /\ pc' = [pc EXCEPT ![m] = "idle"]
               /\ inst' = [inst EXCEPT ![m] = NoInstruction]
               /\ nTx' = [nTx EXCEPT ![m] = @ + 1]
               /\ UNCHANGED wire
    /\ UNCHANGED <<cell, poisoned, nRx, calls, codecVars>>

\* interface.receive_reply(), map_err and ?, then the match on the reply's
\* status: the call returns, or panics, and its guard is dropped.
Receive(m, io, frame) ==
    /\ pc[m] = "receive"
    /\ LET r == receive_reply(io, frame)
           result == CASE r.kind = "Err" -> InterfaceError(r.err)
                       [] r.kind = "Panic" -> Panicked
                       [] r.kind = "Ok" -> MatchStatus(r.reply, Return(inst[m]))
           seen == IF io = "ok" THEN frame ELSE NoFrame
       IN /\ last' = EndOfCall(m, inst[m], result, seen, nTx[m], nRx[m] + 1, FALSE)
          /\ log' = log \o <<Entry(IF io = "ok" THEN "rx" ELSE "rxfail", m, r.err),
                             Entry("end", m, result.tag)>>
          /\ borrowed' = DropGuard(borrowed, m)
          /\ IF result.tag = "Panic"
             THEN /\ pc' = AfterPanic(m)
                  /\ poisoned' = (cell = "Mutex")
             ELSE /\ pc' = [pc EXCEPT ![m] = "idle"]
                  /\ UNCHANGED poisoned
          /\ inst' = [inst EXCEPT ![m] = NoInstruction]
          /\ nRx' = [nRx EXCEPT ![m] = @ + 1]
    /\ UNCHANGED <<cell, nTx, wire, calls, codecVars>>

\* read_frame returns a frame of the module's, or an io::Error.
ReceiveFrame(m) ==
    /\ pc[m] = "receive"
    /\ \E frame \in ReplyFrames(m, inst[m]) : Receive(m, "ok", frame)

ReceiveError(m) == \E io \in IoErrors : Receive(m, io, NoFrame)

Next ==
    \/ \E m \in Modules : \E i \in Instructions(m) : WriteCommand(m, i)
    \/ \E m \in Modules : LockReturns(m)
    \/ \E m \in Modules : \E io \in {"ok"} \cup IoErrors : Transmit(m, io)
    \/ \E m \in Modules : ReceiveFrame(m)
    \/ \E m \in Modules : ReceiveError(m)

Spec == Init /\ [][Next]_vars

\* The callers of the typed module: they read the maximum positioning speed
\* with GAP and set it with SAP, from a value of the checked constructor or from
\* the value an earlier GAP returned.
TypedSpeeds == {0, 1, 2047, 2048, 65535}

TypedInstructions(m) ==
    IF Kind(m) = "generic" THEN GenericInstructions
    ELSE {GAP_new("MaximumPositioningSpeed", 0), GAP_new("ActualSpeed", 0)}
         \cup {SAP_new(0, MaximumPositioningSpeed_new(n).val) :
                 n \in {x \in TypedSpeeds : ~MaximumPositioningSpeed_new(x).panic}}

\* let v = module.write_command(GAP::<T>::new(0))?; module.write_command(SAP::new(0, v)):
\* the second call, on the value the first one returned. SAP needs
\* T: WriteableAxisParameter.
SetFromReply(m) ==
    /\ Kind(m) = "tmcm"
    /\ last # NoLast
    /\ last.m = m
    /\ last.inst.op = "GAP"
    /\ last.result.tag = "Ok"
    /\ last.result.val.ty \in WriteableAxisParameter
    /\ TmcmInstruction(SAP_new(0, last.result.val))
    /\ WriteCommand(m, SAP_new(0, last.result.val))

NextTyped ==
    \/ \E m \in Modules : \E i \in TypedInstructions(m) : WriteCommand(m, i)
    \/ \E m \in Modules : SetFromReply(m)
    \/ \E m \in Modules : LockReturns(m)
    \/ \E m \in Modules : \E io \in {"ok"} \cup IoErrors : Transmit(m, io)
    \/ \E m \in Modules : ReceiveFrame(m)
    \/ \E m \in Modules : ReceiveError(m)

SpecTyped == Init /\ [][NextTyped]_vars

\* The conversions on their own: Status::try_from_u8 on every byte.
DecodeStatus(id) ==
    /\ codecIn' = id
    /\ codecOut' = try_from_u8(id)
    /\ UNCHANGED dispatchVars

NextStatus == \E id \in 0..255 : DecodeStatus(id)

SpecStatus == Init /\ [][NextStatus]_vars

\* The operand codec, the constructors and the rendering on their own: codecIn
\* is the call (op names the function, ty a type, val a value, arr an operand,
\* inst an instruction, kind an instruction kind) and codecOut its outcome.
CodecIn(op, ty, val, arr, i, kind) ==
    [op |-> op, ty |-> ty, val |-> val, arr |-> arr, inst |-> i, kind |-> kind]

NoOutput ==
    [done |-> FALSE, panic |-> FALSE, built |-> FALSE, val |-> UnitVal, arr |-> <<>>,
     inst |-> NoInstruction]

CodecOut(panic, built, val, arr, i) ==
    [done |-> TRUE, panic |-> panic, built |-> built, val |-> val, arr |-> arr, inst |-> i]

\* The values the callers hold, by semantic type.
I16Values ==
    {-32768, -32767, -257, -256, -129, -128, -1, 0, 1, 127, 128, 255, 256, 32766, 32767}

U16Values == {0, 1, 255, 256, 257, 2047, 2048, 32767, 32768, 65534, 65535}

I32Values ==
    {-2147483647 - 1, -2147483647, -16777216, -65537, -65536, -32769, -256, -1, 0, 1,
     255, 256, 65535, 65536, 8388608, 16777216, 2147483646, 2147483647}

U32Values ==
    {Word(0, 0), Word(0, 1), Word(0, 250), Word(0, 255), Word(0, 256), Word(0, 65535),
     Word(1, 0), Word(255, 65535), Word(256, 0), Word(32767, 65535), Word(32768, 0),
     Word(65535, 65534), Word(65535, 65535)}

SemanticValues ==
    {BoolVal("bool", b) : b \in BOOLEAN}
    \cup {IntVal("i8", n) : n \in -128..127}
    \cup {IntVal("u8", n) : n \in 0..255}
    \cup {IntVal("i16", n) : n \in I16Values}
    \cup {IntVal("u16", n) : n \in U16Values}
    \cup {IntVal("i32", n) : n \in I32Values}
    \cup {WordVal("u32", w) : w \in U32Values}

\* The values of the writeable types of modules/tmcm/axis_parameters.rs.
TmcmParameterValues ==
    {IntVal("ActualPosition", n) : n \in I32Values}
    \cup {IntVal("MaximumPositioningSpeed", n) : n \in {0, 1, 255, 256, 2047}}
    \cup {IntVal("AbsoluteMaxCurrent", n) : n \in U16Values}
    \cup {RightLimitSwitchDisable_disabled, RightLimitSwitchDisable_enabled,
          LeftLimitSwitchDisable_disabled, LeftLimitSwitchDisable_enabled}
    \cup {IntVal("MicrostepResolution", n) : n \in 0..6}

\* The operands a reply can carry.
CodecOperands ==
    {<<a, b, c, d>> : a \in {0, 1, 255}, b \in {0, 1}, c \in {0, 1}, d \in {0, 1, 6, 7, 255}}

\* WriteableAxisParameter::operand of a value, then Return::from_operand of its
\* type on that operand (the types that are Return).
EncodeDecode ==
    /\ codecIn.op = "encode"
    /\ ~codecOut.done
    /\ LET a == WriteableAxisParameter_operand(codecIn.val)
           d == from_operand(codecIn.val.ty, a)
       IN codecOut' = CodecOut(d.panic, FALSE, d.val, a, NoInstruction)
    /\ UNCHANGED <<dispatchVars, codecIn>>

\* Return::from_operand of the type codecIn.ty on an operand.
Decode ==
    /\ codecIn.op = "decode"
    /\ ~codecOut.done
    /\ LET d == from_operand(codecIn.ty, codecIn.arr)
       IN codecOut' = CodecOut(d.panic, FALSE, d.val, <<>>, NoInstruction)
    /\ UNCHANGED <<dispatchVars, codecIn>>

\* Command::new(1, instruction).serialize_can() of an instruction.
Render ==
    /\ codecIn.op = "render"
    /\ ~codecOut.done
    /\ codecOut' = CodecOut(FALSE, TRUE, UnitVal,
                            serialize_can(Command_new(1, codecIn.inst)), codecIn.inst)
    /\ UNCHANGED <<dispatchVars, codecIn>>

\* tmcl_instruction!(SAP MPS, 0, speed): SAP::new(0, MaximumPositioningSpeed::new(speed)),
\* then the command's rendering. The panic of new leaves nothing built.
SAP_MPS ==
    /\ codecIn.op = "SAP MPS"
    /\ ~codecOut.done
    /\ LET c == MaximumPositioningSpeed_new(codecIn.val.n)
       IN codecOut' =
            IF c.panic THEN CodecOut(TRUE, FALSE, UnitVal, <<>>, NoInstruction)
            ELSE CodecOut(FALSE, TRUE, c.val,
                          serialize_can(Command_new(1, SAP_new(0, c.val))),
                          SAP_new(0, c.val))
    /\ UNCHANGED <<dispatchVars, codecIn>>

\* The bound on T of each parameterized instruction: SAP<T: WriteableAxisParameter>,
\* GAP<T: ReadableAxisParameter>, STAP<T: WriteableAxisParameter>,
\* RSAP<T: WriteableAxisParameter>.
TraitBound_readable(kind) == ReadableAxisParameter

TraitBound(kind) ==
    CASE kind = "SAP" -> WriteableAxisParameter
      [] kind = "GAP" -> ReadableAxisParameter
      [] kind = "STAP" -> WriteableAxisParameter
      [] kind = "RSAP" -> WriteableAxisParameter

\* The instruction of kind codecIn.kind over the parameter type codecIn.ty (for
\* SAP: over the value codecIn.val of it): built when the type meets the bound,
\* rejected by the compiler when not.
Build ==
    /\ codecIn.op = "build"
    /\ ~codecOut.done
    /\ LET i == CASE codecIn.kind = "SAP" -> SAP_new(0, codecIn.val)
                  [] codecIn.kind = "GAP" -> GAP_new(codecIn.ty, 0)
                  [] codecIn.kind = "STAP" -> STAP_new(codecIn.ty, 0)
                  [] codecIn.kind = "RSAP" -> RSAP_new(codecIn.ty, 0)
       IN codecOut' =
            IF codecIn.ty \in TraitBound(codecIn.kind)
            THEN CodecOut(FALSE, TRUE, UnitVal, <<>>, i)
            ELSE CodecOut(FALSE, FALSE, UnitVal, <<>>, NoInstruction)
    /\ UNCHANGED <<dispatchVars, codecIn>>

\* The types with a Return implementation.
ReturnTypes ==
    {"unit", "[u8; 4]"} \cup SemanticTypes \cup ReadableAxisParameter

\* The values of ActualSpeed, which only a reply's decoding constructs.
ActualSpeedValues == {IntVal("ActualSpeed", n) : n \in {-1, 0, 1, 250}}

\* The instructions the callers render.
RenderInstructions ==
    {ROR_new(m, v) : m \in {0, 2}, v \in U32Values}
    \cup {ROL_new(m, v) : m \in {0, 2}, v \in U32Values}
    \cup {MVP_new(0, MoveOperation(k, x)) : k \in {"Absolute", "Relative"}, x \in I32Values}
    \cup {MVP_new(m, MoveOperation("Coordinate", w)) :
            m \in {0, 1}, w \in U32Values \cup {Word(0, k) : k \in 0..21}}
    \cup {CALC(v, x) : v \in {"Add", "Sub", "Mul", "Div", "Mod", "And", "Or", "Xor", "Load"},
                       x \in {-2147483647 - 1, -1, 0, 1, 250, 65536, 2147483647}}
    \cup {CALC("Not", 0)}
    \cup {SAP_new(1, p) : p \in TmcmParameterValues}
    \cup {GenericSAP_new(0, 4, a) : a \in CodecOperands}
    \cup {GAP_new(T, m) : T \in ReadableAxisParameter, m \in {0, 1}}
    \cup {STAP_new(T, m) : T \in WriteableAxisParameter, m \in {0, 1}}
    \cup {RSAP_new(T, m) : T \in WriteableAxisParameter, m \in {0, 1}}
    \cup {RFS_new(m, a) : m \in {0, 1}, a \in {"Start", "Stop", "Status"}}
    \cup {MST_new(0), MST_new(1), GIO_new(2, 1), GIO_new(1, 2),
          GenericGAP_new(0, 3), GenericSTAP_new(0, 12)}

\* The speeds passed to MaximumPositioningSpeed::new (a u16).
SpeedValues == (0..2060) \cup {4095, 32768, 65535}

CodecInputs ==
    {CodecIn("encode", v.ty, v, <<>>, NoInstruction, "") :
        v \in SemanticValues \cup TmcmParameterValues}
    \cup {CodecIn("decode", ty, UnitVal, a, NoInstruction, "") :
            ty \in ReturnTypes, a \in CodecOperands}
    \cup {CodecIn("render", "", UnitVal, <<>>, i, "") : i \in RenderInstructions}
    \cup {CodecIn("SAP MPS", "u16", IntVal("u16", n), <<>>, NoInstruction, "") :
            n \in SpeedValues}
    \cup {CodecIn("build", v.ty, v, <<>>, NoInstruction, "SAP") :
            v \in TmcmParameterValues \cup ActualSpeedValues}
    \cup {CodecIn("build", ty, UnitVal, <<>>, NoInstruction, kind) :
            ty \in AxisParameter, kind \in {"GAP", "STAP", "RSAP"}}

InitCodec ==
    /\ InitDispatch
    /\ codecIn \in CodecInputs
    /\ codecOut = NoOutput

NextCodec ==
    \/ EncodeDecode
    \/ Decode
    \/ Render
    \/ SAP_MPS
    \/ Build

SpecCodec == InitCodec /\ [][NextCodec]_vars

\* ----------------------------------------------------------------- claims
BusyTags == {"InterfaceUnavailable", "InterfaceBusy"}

\* The last step ended a call that received a whole frame with status byte st.
EndedOnStatus(st) ==
    /\ last # NoLast
    /\ Len(last.frame.data) = 7
    /\ At(last.frame.data, 1) = st

\* C1: in every reachable state at most one exchange is in flight on the
\* interface, an exchange being a transmit not yet followed by its call's return.
C1_AtMostOneExchange == Cardinality({m \in Modules : pc[m] = "receive"}) <= 1

\* An exchange is in flight while another module's call is blocked in the lock,
\* or was just refused.
C1_Witness ==
    \E m, o \in Modules :
        /\ m # o
        /\ pc[m] = "receive"
        /\ pc[o] = "lock" \/ (last.m = o /\ last.result.tag \in BusyTags)

\* Module m makes a call in this step.
Calls(m) ==
    /\ calls' = calls + 1
    /\ pc[m] = "idle"
    /\ pc'[m] # "idle" \/ (last' # NoLast /\ last'.m = m)

\* C2 as claimed: a call made while another module's exchange holds the
\* interface ends at once with the busy error, without waiting and without a
\* transmit or a receive.
C2_BusyFailsFast ==
    [][\A m \in Modules :
         (Calls(m) /\ borrowed \notin {0, m}) =>
            /\ pc'[m] = "idle"
            /\ last'.m = m
            /\ last'.result.tag \in BusyTags
            /\ last'.nTx = 0 /\ last'.nRx = 0
            /\ log' = Append(log, Entry("end", m, last'.result.tag))]_vars

\* C2 as amended: that holds when the cell is a RefCell; when it is a Mutex the
\* call waits in lock for as long as the holder holds (and fails with the error
\* only when the mutex is poisoned); with either cell a call that ends with the
\* busy error made no transmit and no receive.
C2_BusyFailsFastOrWaits ==
    [][\A m \in Modules :
         /\ (Calls(m) /\ borrowed \notin {0, m} /\ cell = "RefCell") =>
                /\ pc'[m] = "idle"
                /\ last'.m = m
                /\ last'.result.tag \in BusyTags
                /\ last'.nTx = 0 /\ last'.nRx = 0
                /\ log' = Append(log, Entry("end", m, last'.result.tag))
         /\ (Calls(m) /\ borrowed \notin {0, m} /\ cell = "Mutex") =>
                pc'[m] = "lock" /\ last' = NoLast /\ log' = log
         /\ (pc[m] = "lock" /\ borrowed # 0) => pc'[m] = "lock"
         /\ (last' # NoLast /\ last'.m = m /\ last'.result.tag \in BusyTags) =>
                /\ last'.nTx = 0 /\ last'.nRx = 0
                /\ log' = Append(log, Entry("end", m, last'.result.tag))
                /\ cell = "Mutex" => poisoned]_vars

\* Under a RefCell a call was just refused while another module holds the cell.
C2_Witness ==
    /\ cell = "RefCell"
    /\ last.result.tag \in BusyTags
    /\ borrowed \notin {0, last.m}

\* C3: in the log, from a call's transmit to that call's end, the only entries
\* of another module are calls ended by the busy error: no transmit or receive
\* of another call comes between a transmit and its own receive or abort.
C3_NoInterleaving ==
    \A i \in 1..Len(log) :
        log[i].op = "tx" =>
            \A j \in (i + 1)..Len(log) :
                (\A k \in (i + 1)..(j - 1) : ~(log[k].op = "end" /\ log[k].m = log[i].m))
                => \/ log[j].m = log[i].m /\ log[j].op \in {"rx", "rxfail", "end"}
                   \/ /\ log[j].m # log[i].m
                      /\ log[j].op = "end"
                      /\ log[j].tag \in BusyTags

\* Two modules have each transmitted.
C3_Witness ==
    \E i, j \in 1..Len(log) :
        /\ i < j
        /\ log[i].op = "tx" /\ log[j].op = "tx"
        /\ log[i].m # log[j].m

\* C4: a call that received a reply with an error status (1..6) returns the
\* protocol error, and leaves the cell free and unpoisoned, so that the next
\* borrow_int_mut succeeds.
C4_ErrorReplyReleases ==
    \A st \in 1..6 :
        EndedOnStatus(st) =>
            /\ last.result.tag = "ProtocolError"
            /\ pc[last.m] = "idle"
            /\ borrowed = 0
            /\ ~poisoned
            /\ borrow_int_mut(cell, borrowed, poisoned) = "Ok"

\* A call returns Ok after an earlier call on the interface returned the
\* protocol error.
C4_Witness ==
    /\ last.result.tag = "Ok"
    /\ \E k \in 1..Len(log) : log[k].op = "end" /\ log[k].tag = "ProtocolError"

\* The ErrStatus variant of an error code (lib.rs, enum ErrStatus).
C5_Variant(st) ==
    CASE st = 1 -> "WrongChecksum"
      [] st = 2 -> "InvalidCommand"
      [] st = 3 -> "WrongType"
      [] st = 4 -> "InvalidValue"
      [] st = 5 -> "EEPROMLocked"
      [] st = 6 -> "CommandNotAvailable"

\* C5: a reply with error status st in 1..6 makes write_command return
\* Error::ProtocolError of exactly that code's ErrStatus variant, after exactly
\* one transmit (and one receive): the command is not retried.
C5_ProtocolErrorVariant ==
    \A st \in 1..6 :
        EndedOnStatus(st) =>
            /\ last.result.tag = "ProtocolError"
            /\ last.result.err = C5_Variant(st)
            /\ last.nTx = 1
            /\ last.nRx = 1

\* The crate documentation's example: the generic SAP of parameter 3 answered
\* with status 3 returns ProtocolError(WrongType).
C5_Witness ==
    /\ EndedOnStatus(3)
    /\ Kind(last.m) = "generic"
    /\ last.inst = GenericSAP_new(0, 3, <<0, 0, 0, 0>>)
    /\ last.result.tag = "ProtocolError"
    /\ last.result.err = "WrongType"

\* C6 as claimed: a reply with status 100 or 101 makes write_command return Ok
\* (with the operand decoded as the instruction's Return type) and the cell is
\* released.
C6_OkReplyReturnsValue ==
    \A st \in {100, 101} :
        EndedOnStatus(st) =>
            /\ last.result.tag = "Ok"
            /\ last.result.val.ty = Return(last.inst)
            /\ pc[last.m] = "idle"
            /\ borrowed = 0

\* C7: get-parameter(ActualSpeed) on the TmcmModule answered with status 100
\* and operand [0, 0, 0, 1] returns the ActualSpeed of value 1.
C7_ActualSpeedOne ==
    ( /\ EndedOnStatus(100)
      /\ Kind(last.m) = "tmcm"
      /\ last.inst.op = "GAP" /\ last.inst.ptype = "ActualSpeed"
      /\ SubSeq(last.frame.data, 4, 7) = <<0, 0, 0, 1>> )
    => /\ last.result.tag = "Ok"
       /\ last.result.val.ty = "ActualSpeed"
       /\ last.result.val.n = 1

C7_Witness ==
    /\ EndedOnStatus(100)
    /\ Kind(last.m) = "tmcm"
    /\ last.inst = GAP_new("ActualSpeed", 0)
    /\ SubSeq(last.frame.data, 4, 7) = <<0, 0, 0, 1>>
    /\ last.result.val.n = 1

\* The last step ended a call on a failed send: the log ends with the txfail
\* and the call's end.
EndedOnSendFailure ==
    /\ last # NoLast
    /\ Len(log) >= 2
    /\ log[Len(log) - 1].op = "txfail"

\* C8: when the send fails, the call returns Error::InterfaceError carrying the
\* transport's error value, after one transmit and no receive, and every
\* failed send in the log is followed at once by its call's end.
C8_SendFailureAborts ==
    /\ EndedOnSendFailure =>
          /\ last.result.tag = "InterfaceError"
          /\ last.result.err = log[Len(log) - 1].tag
          /\ last.result.err \in IoErrors
          /\ last.nTx = 1
          /\ last.nRx = 0
          /\ last.m = log[Len(log) - 1].m
    /\ \A i \in 1..Len(log) :
          log[i].op = "txfail" =>
              /\ i < Len(log)
              /\ log[i + 1] = Entry("end", log[i].m, "InterfaceError")

C8_Witness ==
    /\ EndedOnSendFailure
    /\ last.result.err = "ENOBUFS"

\* C9 as claimed: a received frame whose status byte is no known status code
\* ends the call with an error returned to the caller, never with a panic.
C9_UnknownStatusReturnsError ==
    \A st \in StatusBytes \ ((1..6) \cup {100, 101}) :
        EndedOnStatus(st) =>
            /\ last.result.tag # "Panic"
            /\ last.result.tag \notin {"", "Ok"}
            /\ pc[last.m] = "idle"

\* The table of the claim: the variant of each known code.
C10_Table(id) ==
    CASE id = 1 -> StatusErr("WrongChecksum")
      [] id = 2 -> StatusErr("InvalidCommand")
      [] id = 3 -> StatusErr("WrongType")
      [] id = 4 -> StatusErr("InvalidValue")
      [] id = 5 -> StatusErr("EEPROMLocked")
      [] id = 6 -> StatusErr("CommandNotAvailable")
      [] id = 100 -> StatusOk("Ok")
      [] id = 101 -> StatusOk("LoadedIntoEEPROM")
      [] OTHER -> NonValidErrorCode

\* C10: over the bytes 0..255, the codes 1..6 decode to the six Err variants,
\* 100 and 101 to the two Ok variants, every other byte fails to decode, and
\* no other byte decodes to the variant of a decoded one.
C10_StatusDecoding ==
    /\ codecIn \in 0..255
    /\ codecOut = C10_Table(codecIn)
    /\ codecOut.ok <=> codecIn \in (1..6) \cup {100, 101}
    /\ codecOut.ok => \A id \in (0..255) \ {codecIn} : try_from_u8(id) # codecOut

C10_Witness ==
    /\ codecIn = 4
    /\ codecOut = StatusErr("InvalidValue")

\* C11: for every value v of a semantic type (bool, i8, u8, i16, u16, i32, u32),
\* 0, -1, the minimum and the maximum included, decoding the operand that
\* encoding v produced gives back v.
C11_RoundTrip ==
    (codecIn.op = "encode" /\ codecOut.done /\ codecIn.val.ty \in SemanticTypes) =>
        /\ ~codecOut.panic
        /\ codecOut.val = codecIn.val

\* The i16 -1 was encoded to [255, 255, 0, 0] and decoded back to -1.
C11_Witness ==
    /\ codecIn.op = "encode"
    /\ codecIn.val = IntVal("i16", -1)
    /\ codecOut.done
    /\ codecOut.arr = <<255, 255, 0, 0>>
    /\ codecOut.val = IntVal("i16", -1)

\* The width in bytes of a parameter type's semantic type.
C12_Width(ty) ==
    CASE ty \in {"bool", "i8", "u8", "RightLimitSwitchDisable", "LeftLimitSwitchDisable",
                 "MicrostepResolution"} -> 1
      [] ty \in {"i16", "u16", "MaximumPositioningSpeed", "AbsoluteMaxCurrent"} -> 2
      [] ty \in {"i32", "u32", "ActualPosition"} -> 4

\* Byte k (0 the least significant) of the value p in two's complement.
C12_Byte(p, k) ==
    CASE p.ty = "u32" ->
            (IF k < 2 THEN p.w.lo \div (256 ^ k) ELSE p.w.hi \div (256 ^ (k - 2))) % 256
      [] p.ty \in {"bool", "RightLimitSwitchDisable", "LeftLimitSwitchDisable"} ->
            IF k = 0 /\ p.b THEN 1 ELSE 0
      [] OTHER -> (p.n \div (256 ^ k)) % 256

\* C12 as claimed: every writeable parameter type renders its value to a 4-byte
\* operand with the least significant byte at index 0, the value of a narrower
\* type in the low indexes and zero in every higher index.
C12_LeastSignificantFirst ==
    (codecIn.op = "encode" /\ codecOut.done) =>
        /\ Len(codecOut.arr) = 4
        /\ \A k \in 0..3 :
              At(codecOut.arr, k) =
                 IF k < C12_Width(codecIn.val.ty) THEN C12_Byte(codecIn.val, k) ELSE 0

\* C13 as claimed: a boolean decoded from an operand, as a plain bool or as the
\* right or left limit switch disable parameter, is true exactly when one of the
\* four bytes at least is not zero.
C13_BoolAnyByte ==
    ( /\ codecIn.op = "decode" /\ codecOut.done
      /\ codecIn.ty \in {"bool", "RightLimitSwitchDisable", "LeftLimitSwitchDisable"} )
    => /\ ~codecOut.panic
       /\ codecOut.val.b <=> (\E k \in 0..3 : At(codecIn.arr, k) # 0)

\* C14: the CAN rendering of every instruction is the 7 bytes
\* [instruction number, type number, motor or bank number, operand[3], operand[2],
\* operand[1], operand[0]], without module address and without checksum;
\* rotate-right(motor 0, velocity 250) renders to [1, 0, 0, 0, 0, 0, 250].
C14_CanRendering ==
    (codecIn.op = "render" /\ codecOut.done) =>
        LET i == codecIn.inst
            o == operand(i)
        IN /\ Len(codecOut.arr) = 7
           /\ SubSeq(codecOut.arr, 1, 3) =
                 <<INSTRUCTION_NUMBER(i), type_number(i), motor_bank_number(i)>>
           /\ SubSeq(codecOut.arr, 4, 7) = <<At(o, 3), At(o, 2), At(o, 1), At(o, 0)>>
           /\ i = ROR_new(0, U32(250)) => codecOut.arr = <<1, 0, 0, 0, 0, 0, 250>>

\* ROR::new(0, 250) was rendered to [1, 0, 0, 0, 0, 0, 250].
C14_Witness ==
    /\ codecIn.op = "render"
    /\ codecIn.inst = ROR_new(0, U32(250))
    /\ codecOut.done
    /\ codecOut.arr = <<1, 0, 0, 0, 0, 0, 250>>

\* The instructions that carry a value, and the value: the velocity of ROR and
\* ROL, the position or coordinate of MVP, the operand of CALC, the axis
\* parameter of SAP.
C15_CarriesValue(i) ==
    \/ i.op \in {"ROR", "ROL", "MVP", "SAP", "GenericSAP"}
    \/ i.op = "CALC" /\ i.ptype # "Not"

C15_Value(i) ==
    CASE i.op \in {"ROR", "ROL"} -> WordVal("u32", i.uval)
      [] i.op = "MVP" ->
            IF i.param.ty = "Coordinate" THEN WordVal("u32", i.param.w)
            ELSE IntVal("i32", i.param.n)
      [] i.op = "CALC" -> IntVal("i32", i.val)
      [] i.op = "SAP" -> i.param

\* C15 as claimed: the operand bytes on the wire of every instruction that
\* carries a value are the value most significant byte first (for the generic
\* SAP: its raw operand, whose index 0 is the least significant, reversed).
C15_MostSignificantFirst ==
    (codecIn.op = "render" /\ codecOut.done /\ C15_CarriesValue(codecIn.inst)) =>
        LET i == codecIn.inst
        IN SubSeq(codecOut.arr, 4, 7) =
              IF i.op = "GenericSAP"
              THEN <<At(i.arr, 3), At(i.arr, 2), At(i.arr, 1), At(i.arr, 0)>>
              ELSE <<C12_Byte(C15_Value(i), 3), C12_Byte(C15_Value(i), 2),
                     C12_Byte(C15_Value(i), 1), C12_Byte(C15_Value(i), 0)>>

\* C16 as claimed: the value a module places most significant byte first in the
\* operand bytes of a CAN reply frame is the value that receive_reply followed
\* by the decoding of the Return type gives: get-input (GIO), whose Return
\* type is u32, returns the u32 of the frame's bytes 3..6, byte 3 the most
\* significant.
C16_ReceiveReverses ==
    \A st \in {100, 101} :
        (EndedOnStatus(st) /\ last.inst.op = "GIO") =>
            /\ last.result.tag = "Ok"
            /\ last.result.val.w =
                  Word(At(last.frame.data, 3) * 256 + At(last.frame.data, 4),
                       At(last.frame.data, 5) * 256 + At(last.frame.data, 6))

\* C17: a get-parameter instruction is built only over a Readable parameter
\* type and a set-parameter instruction only over a Writeable one; the
\* read-only ActualSpeed value of a get-parameter exchange never builds a
\* set-parameter instruction, and none over it is an instruction of the TmcmModule.
C17_CapabilityEnforced ==
    (codecIn.op = "build" /\ codecOut.done) =>
        /\ (codecIn.kind = "GAP" /\ codecOut.built) => codecIn.ty \in ReadableAxisParameter
        /\ (codecIn.kind = "SAP" /\ codecOut.built) => codecIn.ty \in WriteableAxisParameter
        /\ (codecIn.kind = "SAP" /\ codecIn.ty = "ActualSpeed") =>
              /\ ~codecOut.built
              /\ codecOut.inst = NoInstruction
              /\ ~TmcmInstruction(SAP_new(0, codecIn.val))

\* The building of SAP over an ActualSpeed value was tried and rejected.
C17_Witness ==
    /\ codecIn.op = "build"
    /\ codecIn.kind = "SAP"
    /\ codecIn.val = IntVal("ActualSpeed", 1)
    /\ codecOut.done
    /\ ~codecOut.built

\* The capabilities the source declares for a parameter type; it declares
\* Storable for none.
C18_Capabilities(ty) ==
    (IF ty \in ReadableAxisParameter THEN {"Readable"} ELSE {})
    \cup (IF ty \in WriteableAxisParameter THEN {"Writeable"} ELSE {})

\* C18 as claimed: a store-parameter instruction is built only over a parameter
\* type with the Storable capability; Readable or Writeable alone do not allow it.
C18_StoreNeedsStorable ==
    (codecIn.op = "build" /\ codecOut.done /\ codecIn.kind = "STAP" /\ codecOut.built) =>
        "Storable" \in C18_Capabilities(codecIn.ty)

\* C19: MaximumPositioningSpeed::new fails on a speed above 2047, before any
\* instruction is built or rendered, and accepts every speed 0..2047.
C19_SpeedLimit ==
    (codecIn.op = "SAP MPS" /\ codecOut.done) =>
        IF codecIn.val.n > 2047
        THEN /\ codecOut.panic
             /\ ~codecOut.built
             /\ codecOut.inst = NoInstruction
             /\ codecOut.arr = <<>>
        ELSE /\ ~codecOut.panic
             /\ codecOut.built
             /\ codecOut.val = IntVal("MaximumPositioningSpeed", codecIn.val.n)
             /\ codecOut.inst.param = codecOut.val

\* The speed 2048 was refused.
C19_Witness ==
    /\ codecIn.op = "SAP MPS"
    /\ codecIn.val.n = 2048
    /\ codecOut.done
    /\ codecOut.panic

\* C20 as claimed: decoding a MicrostepResolution from an operand never panics
\* (a value outside 0..6 is an error returned to the caller), and the values
\* 0..6 decode to the seven levels.
C20_MicrostepDecodes ==
    (codecIn.op = "decode" /\ codecOut.done /\ codecIn.ty = "MicrostepResolution") =>
        /\ ~codecOut.panic
        /\ At(codecIn.arr, 3) \in 0..6 =>
              codecOut.val = IntVal("MicrostepResolution", At(codecIn.arr, 3))

C22_InterfaceOps == {"tx", "txfail", "rx", "rxfail"}

\* C22: each call makes at most one transmit and at most one receive, the
\* receive only after its own successful transmit; every reply is consumed by
\* the call whose command was the last one transmitted.
C22_OneExchangePerCall ==
    /\ \A m \in Modules :
          /\ nTx[m] <= 1 /\ nRx[m] <= 1
          /\ nRx[m] = 1 => nTx[m] = 1
          /\ pc[m] = "receive" =>
                /\ nTx[m] = 1
                /\ wire = [id |-> m, data |-> serialize_can(Command_new(m, inst[m]))]
    /\ last # NoLast =>
          /\ last.nTx <= 1 /\ last.nRx <= 1
          /\ last.nRx = 1 => (last.nTx = 1 /\ wire.id = last.m)
    /\ \A k \in 1..Len(log) :
          log[k].op \in {"rx", "rxfail"} =>
             \E j \in 1..(k - 1) :
                /\ log[j].op = "tx"
                /\ log[j].m = log[k].m
                /\ \A x \in (j + 1)..(k - 1) : log[x].op \notin C22_InterfaceOps

\* Two calls have each transmitted once and received once.
C22_Witness ==
    /\ Cardinality({k \in 1..Len(log) : log[k].op = "tx"}) = 2
    /\ Cardinality({k \in 1..Len(log) : log[k].op = "rx"}) = 2
    /\ last # NoLast /\ last.nTx = 1 /\ last.nRx = 1

\* C26: when write_command has returned, with any outcome, the guard it took is
\* dropped: the interface is free in every state in which no call is in
\* progress, and a call gets the busy error only while another call holds the
\* interface (or after a panic poisoned the mutex), never because of a call
\* that returned.
C26_LockReleased ==
    /\ (\A m \in Modules : pc[m] \in {"idle", "dead"}) => borrowed = 0
    /\ (last # NoLast /\ last.result.tag # "Panic") =>
          (borrowed # last.m /\ pc[last.m] = "idle")
    /\ (last # NoLast /\ last.result.tag \in BusyTags) =>
          (borrowed \notin {0, last.m} \/ poisoned)

\* A call ended on a send failure and a later call on the interface returned Ok.
C26_Witness ==
    /\ \E j \in 1..Len(log) :
          /\ log[j].op = "end" /\ log[j].tag = "InterfaceError"
          /\ j > 1 /\ log[j - 1].op = "txfail"
    /\ last # NoLast /\ last.result.tag = "Ok"
    /\ borrowed = 0

\* C23: every SAP, GAP, STAP and RSAP is rendered with the NUMBER of its
\* parameter type as type number; SAP's operand is the operand its parameter
\* value renders, and GAP, STAP and RSAP carry the all-zero operand whatever
\* the parameter type.
C23_ParameterizedInstructions ==
    (codecIn.op = "render" /\ codecOut.done
        /\ codecIn.inst.op \in {"SAP", "GAP", "STAP", "RSAP"}) =>
        LET i == codecIn.inst
            sent == <<codecOut.arr[7], codecOut.arr[6], codecOut.arr[5], codecOut.arr[4]>>
        IN /\ codecOut.arr[2] = NUMBER(i.ptype)
           /\ i.op = "SAP" => sent = WriteableAxisParameter_operand(i.param)
           /\ i.op # "SAP" => sent = <<0, 0, 0, 0>>

\* A SAP with a non-zero operand and a GAP of MicrostepResolution (number 140)
\* were rendered.
C23_Witness ==
    /\ codecIn.op = "render" /\ codecOut.done
    /\ \/ /\ codecIn.inst = SAP_new(1, IntVal("AbsoluteMaxCurrent", 257))
          /\ codecOut.arr[2] = 6
          /\ SubSeq(codecOut.arr, 4, 7) # <<0, 0, 0, 0>>
       \/ /\ codecIn.inst = GAP_new("MicrostepResolution", 1)
          /\ codecOut.arr = <<6, 140, 1, 0, 0, 0, 0>>

\* C24 as claimed: every MVP of MoveOperation::Coordinate is rendered with the
\* coordinate index, one of 0..20, in the operand's low byte and zero in the
\* other three bytes.
C24_CoordinateIndex ==
    (codecIn.op = "render" /\ codecOut.done /\ codecIn.inst.op = "MVP"
        /\ codecIn.inst.param.ty = "Coordinate") =>
        /\ SubSeq(codecOut.arr, 4, 6) = <<0, 0, 0>>
        /\ codecOut.arr[7] \in 0..20

\* The selector of each CALC operation.
C25_Selector ==
    [Add |-> 0, Sub |-> 1, Mul |-> 2, Div |-> 3, Mod |-> 4, And |-> 5, Or |-> 6,
     Xor |-> 7, Not |-> 8, Load |-> 9]

\* C25: CALC is rendered with the selector of its operation as type number (add
\* 0, sub 1, mul 2, div 3, mod 4, and 5, or 6, xor 7, not 8, load 9); its
\* operand is the i32 least significant byte first for every operation that has
\* one, and all zero for not.
C25_Calc ==
    (codecIn.op = "render" /\ codecOut.done /\ codecIn.inst.op = "CALC") =>
        LET i == codecIn.inst
            sent == <<codecOut.arr[7], codecOut.arr[6], codecOut.arr[5], codecOut.arr[4]>>
            x == IntVal("i32", i.val)
        IN /\ codecOut.arr[1] = 19
           /\ \A v \in DOMAIN C25_Selector : i.ptype = v => codecOut.arr[2] = C25_Selector[v]
           /\ i.ptype \in DOMAIN C25_Selector
           /\ i.ptype = "Not" => sent = <<0, 0, 0, 0>>
           /\ i.ptype # "Not" =>
                 sent = <<C12_Byte(x, 0), C12_Byte(x, 1), C12_Byte(x, 2), C12_Byte(x, 3)>>

\* CALC::Load(65536) was rendered to [19, 9, 0, 0, 1, 0, 0], or CALC::Not to
\* [19, 8, 0, 0, 0, 0, 0].
C25_Witness ==
    /\ codecIn.op = "render" /\ codecOut.done
    /\ \/ codecIn.inst = CALC("Load", 65536) /\ codecOut.arr = <<19, 9, 0, 0, 1, 0, 0>>
       \/ codecIn.inst = CALC("Not", 0) /\ codecOut.arr = <<19, 8, 0, 0, 0, 0, 0>>

\* The instructions of instructions.rs among the rendered ones.
C28_Typed == {i \in RenderInstructions : i.op \notin {"GenericSAP", "GenericGAP", "GenericSTAP"}}

\* C28 as claimed: no other instruction (one that differs in kind, sub-mode,
\* motor or bank, or value) renders to the frame of the rendered instruction.
C28_Injective ==
    (codecIn.op = "render" /\ codecOut.done /\ codecIn.inst \in C28_Typed) =>
        \A j \in C28_Typed \ {codecIn.inst} :
            serialize_can(Command_new(1, j)) # codecOut.arr

\* C27 as claimed: on the typed module, every SAP of MaximumPositioningSpeed
\* that was put on the wire carries a speed of at most 2047, whether the value
\* came from MaximumPositioningSpeed::new or from the reply of an earlier GAP.
C27_SpeedOnWire ==
    \A m \in Modules :
        (Kind(m) = "tmcm" /\ pc[m] = "receive" /\ inst[m].op = "SAP"
            /\ inst[m].ptype = "MaximumPositioningSpeed") =>
            /\ wire = [id |-> m, data |-> serialize_can(Command_new(m, inst[m]))]
            /\ inst[m].param.n <= 2047

====
